---- MODULE Spec2Model ----
(***************************************************************************)
(* Model of the action-recognition backend:                                *)
(*   backend/video_utils.py   frame extraction and batch shaping           *)
(*   backend/model_loader.py  cached model and class-label list            *)
(*   backend/app.py           the Flask handler of POST /predict           *)
(*                                                                         *)
(* Numbers with a fractional part are kept in fixed point: a pixel channel *)
(* after normalisation is held in thousandths (255/255.0 is 1000).         *)
(***************************************************************************)
EXTENDS Integers, Sequences, FiniteSets, TLC

VARIABLES
    call,           \* video_utils: the last direct call and what it returned
    _model,         \* model_loader: the cached model (module global)
    _class_labels,  \* model_loader: the cached label list (module global)
    modelFile,      \* the file at MODEL_PATH
    classesFile,    \* the file at CLASSES_PATH
    builds,         \* number of build_model() calls that returned a model
    labelReads,     \* number of times a label source was read
    loadCalls,      \* number of loader calls made so far
    lastLoad,       \* the last loader call and what it returned
    firstRet,       \* what the first successful call of each loader returned
    class_labels,   \* app: the label list bound at startup (module global)
    uploads,        \* the files in UPLOAD_FOLDER: path -> content
    pc,             \* position of the request in predict()
    req,            \* locals of the request in predict()
    response,       \* the response returned for the request
    trace,          \* what the request did: files written, predict calls;
                    \* 'uploaded' holds the saved upload until it is decoded,
                    \* 'readOwn' says whether that is what was decoded
    other           \* pc, req, response and trace of the request that another
                    \* thread of the server is handling

vars == <<call, _model, _class_labels, modelFile, classesFile, builds,
          labelReads, loadCalls, lastLoad, firstRet, class_labels, uploads,
          pc, req, response, trace, other>>

videoVars == <<call>>

loaderVars == <<_model, _class_labels, modelFile, classesFile, builds,
                labelReads, loadCalls, lastLoad, firstRet>>

appVars == <<class_labels, uploads, pc, req, response, trace, other>>

(***************************************************************************)
(* Bounds of the model.                                                    *)
(***************************************************************************)
\* longest video stream, in frames
MaxFrames == 3
\* largest seq_length argument passed to extract_frames directly
MaxSeqLen == 2
\* largest img_size argument passed to extract_frames directly
MaxImgSize == 2
\* largest rank of an array handed to preprocess_video directly
MaxRank == 6
\* number of load_model / get_class_labels calls followed in one process
MaxCalls == 4
\* longest video stream uploaded to POST /predict, in frames
MaxUploadFrames == 1

(***************************************************************************)
(* video_utils.py: constants.                                              *)
(***************************************************************************)
SEQ_LENGTH == 20
IMG_SIZE == 224
CHANNELS == 3

None == [none |-> TRUE]

Min(a, b) == IF a <= b THEN a ELSE b

\* Raw decoded frames: one colour per frame, 8-bit channels in RGB order.
RawFrames == {<<255, 51, 0>>, <<0, 51, 255>>}

RawSeqs == UNION {[1..n -> RawFrames] : n \in 0..MaxFrames}

\* A video file as the two decoders see it.
\*   raw      the frames of the stream, in stream order
\*   ioRaise  -1: imageio never raises; 0: get_reader raises; j >= 1: the
\*            j-th pull of a frame from the reader raises
\*   cvOpen   cap.isOpened()
\*   cvCount  number of frames cap.read() delivers before ret is False
\*   cvRaise  -1: OpenCV path never raises; 0: VideoCapture raises;
\*            j >= 1: processing of the j-th frame read raises
Videos ==
    {[raw |-> r, ioRaise |-> i, cvOpen |-> o, cvCount |-> c, cvRaise |-> x] :
        r \in RawSeqs, i \in -1..(MaxFrames + 1), o \in BOOLEAN,
        c \in 0..MaxFrames, x \in -1..MaxFrames}

IsVideo(v) ==
    /\ v.ioRaise <= Len(v.raw) + 1
    /\ v.cvCount <= Len(v.raw)
    /\ v.cvRaise <= v.cvCount
    /\ (~v.cvOpen => v.cvCount = 0 /\ v.cvRaise <= 0)

VideoFiles == {v \in Videos : IsVideo(v)}

UploadedVideos == {v \in VideoFiles : Len(v.raw) <= MaxUploadFrames}

Reverse3(p) == <<p[3], p[2], p[1]>>

\* cv2.cvtColor(frame, cv2.COLOR_BGR2RGB)
cvtColor(frame) == [frame EXCEPT !.px = Reverse3(frame.px)]

\* cv2.resize(frame, (img_size, img_size))
resize(frame, img_size) == [frame EXCEPT !.shape = <<img_size, img_size, 3>>]

\* frame / 255.0, in thousandths
normalize(frame) ==
    [frame EXCEPT !.px = [k \in 1..3 |-> (frame.px[k] * 1000) \div 255]]

\* np.zeros((img_size, img_size, CHANNELS))
zeros(img_size) ==
    [shape |-> <<img_size, img_size, CHANNELS>>, px |-> <<0, 0, 0>>]

\* frame j as the imageio reader yields it (RGB)
ioFrame(video, j) == [shape |-> <<1, 1, 3>>, px |-> video.raw[j]]

\* frame j as cap.read() returns it (BGR)
cvFrame(video, j) == [shape |-> <<1, 1, 3>>, px |-> Reverse3(video.raw[j])]

RECURSIVE ioLoop(_, _, _, _, _)
\* the loop 'for i, frame in enumerate(reader)': i frames are already kept
ioLoop(video, seq_length, img_size, i, frames) ==
    IF video.ioRaise = i + 1
    THEN [frames |-> frames, raised |-> TRUE, asked |-> i + 1, pulled |-> i]
    ELSE IF i + 1 > Len(video.raw)
    THEN [frames |-> frames, raised |-> FALSE, asked |-> i + 1, pulled |-> i]
    ELSE IF i >= seq_length
    THEN [frames |-> frames, raised |-> FALSE, asked |-> i + 1,
          pulled |-> i + 1]
    ELSE ioLoop(video, seq_length, img_size, i + 1,
                Append(frames,
                       normalize(resize(ioFrame(video, i + 1), img_size))))

\* a reader loop that breaks one frame late
ioRead_late(video, seq_length, img_size) ==
    IF video.ioRaise = 0
    THEN [frames |-> <<>>, raised |-> TRUE, asked |-> 0, pulled |-> 0]
    ELSE ioLoop(video, seq_length + 1, img_size, 0, <<>>)

\* the primary decoder: get_reader, then the loop
ioRead(video, seq_length, img_size) ==
    IF video.ioRaise = 0
    THEN [frames |-> <<>>, raised |-> TRUE, asked |-> 0, pulled |-> 0]
    ELSE ioLoop(video, seq_length, img_size, 0, <<>>)

RECURSIVE cvLoop(_, _, _, _, _)
\* the loop 'while frame_count < seq_length'
cvLoop(video, seq_length, img_size, frame_count, frames) ==
    IF ~(frame_count < seq_length)
    THEN [frames |-> frames, isNone |-> FALSE, raised |-> FALSE,
          reads |-> frame_count]
    ELSE IF frame_count + 1 > video.cvCount
    THEN [frames |-> frames, isNone |-> FALSE, raised |-> FALSE,
          reads |-> frame_count + 1]
    ELSE IF video.cvRaise = frame_count + 1
    THEN [frames |-> frames, isNone |-> FALSE, raised |-> TRUE,
          reads |-> frame_count + 1]
    ELSE cvLoop(video, seq_length, img_size, frame_count + 1,
                Append(frames,
                       normalize(resize(cvtColor(cvFrame(video,
                                                         frame_count + 1)),
                                        img_size))))

extract_frames_opencv(video, seq_length, img_size) ==
    IF video.cvRaise = 0
    THEN [frames |-> <<>>, isNone |-> FALSE, raised |-> TRUE, reads |-> 0]
    ELSE IF ~video.cvOpen
    THEN [frames |-> <<>>, isNone |-> TRUE, raised |-> FALSE, reads |-> 0]
    ELSE cvLoop(video, seq_length, img_size, 0, <<>>)

\* a padder that appends nothing
pad_nothing(frames, seq_length, img_size) == frames

RECURSIVE pad(_, _, _)
\* 'while len(frames) < seq_length: frames.append(np.zeros(...))'
pad(frames, seq_length, img_size) ==
    IF Len(frames) < seq_length
    THEN pad(Append(frames, zeros(img_size)), seq_length, img_size)
    ELSE frames

\* np.array(frames, dtype=np.float32) of equally shaped frames
ndarray(frames) ==
    [none |-> FALSE,
     shape |-> <<Len(frames)>> \o frames[1].shape,
     data |-> [k \in 1..Len(frames) |-> frames[k].px],
     dtype |-> "float32"]

\* extract_frames, with a record of what each decoder was asked to do
extract_frames(video, seq_length, img_size) ==
    LET io == ioRead(video, seq_length, img_size)
        cv == extract_frames_opencv(video, seq_length, img_size)
        noCv == [tried |-> FALSE, reads |-> 0]
        didCv == [tried |-> TRUE, reads |-> cv.reads]
        ioLog == [raised |-> io.raised, kept |-> Len(io.frames),
                  asked |-> io.asked, pulled |-> io.pulled]
    IN  IF io.raised
        THEN IF cv.raised \/ cv.isNone \/ Len(cv.frames) = 0
             THEN [ret |-> None, decoder |-> "none", kept |-> 0,
                   io |-> ioLog, cv |-> didCv]
             ELSE [ret |-> ndarray(pad(cv.frames, seq_length, img_size)),
                   decoder |-> "opencv", kept |-> Len(cv.frames),
                   io |-> ioLog, cv |-> didCv]
        ELSE IF Len(io.frames) = 0
             THEN [ret |-> None, decoder |-> "none", kept |-> 0,
                   io |-> ioLog, cv |-> noCv]
             ELSE [ret |-> ndarray(pad(io.frames, seq_length, img_size)),
                   decoder |-> "imageio", kept |-> Len(io.frames),
                   io |-> ioLog, cv |-> noCv]

\* a batch shaper that adds the batch axis to every array it accepts
preprocess_video_expand(frames) ==
    IF frames = None
    THEN [raised |-> TRUE, error |-> "ValueError",
          message |-> <<"Frames cannot be None">>, value |-> None]
    ELSE IF Len(frames.shape) \in {4, 5}
    THEN [raised |-> FALSE, error |-> "", message |-> <<>>,
          value |-> [frames EXCEPT !.shape = <<1>> \o frames.shape,
                                   !.dtype = "float32"]]
    ELSE [raised |-> TRUE, error |-> "ValueError",
          message |-> <<"Invalid frames shape: ", frames.shape>>,
          value |-> None]

\* preprocess_video: the batch tensor, or the ValueError it raises
preprocess_video(frames) ==
    IF frames = None
    THEN [raised |-> TRUE, error |-> "ValueError",
          message |-> <<"Frames cannot be None">>, value |-> None]
    ELSE IF Len(frames.shape) = 4
    THEN [raised |-> FALSE, error |-> "", message |-> <<>>,
          value |-> [frames EXCEPT !.shape = <<1>> \o frames.shape,
                                   !.dtype = "float32"]]
    ELSE IF Len(frames.shape) = 5
    THEN [raised |-> FALSE, error |-> "", message |-> <<>>,
          value |-> [frames EXCEPT !.dtype = "float32"]]
    ELSE [raised |-> TRUE, error |-> "ValueError",
          message |-> <<"Invalid frames shape: ", frames.shape>>,
          value |-> None]

(***************************************************************************)
(* Direct calls of the functions of video_utils.py.                        *)
(***************************************************************************)
Dims == {1, 2}

Shapes == UNION {[1..r -> Dims] : r \in 0..MaxRank}

\* arrays of every rank up to MaxRank, and None
ArrayInputs ==
    {[none |-> FALSE, shape |-> s, data |-> <<>>, dtype |-> t] :
        s \in Shapes, t \in {"float32", "float64"}}

NoCall == [op |-> "none", done |-> FALSE]

\* the calls that can be made, before they are made
PendingCalls ==
    {[op |-> "extract_frames", done |-> FALSE, video |-> v,
      seq_length |-> n, img_size |-> s] :
        v \in VideoFiles, n \in 1..MaxSeqLen, s \in 1..MaxImgSize}
    \cup {[op |-> "preprocess_video", done |-> FALSE, frames |-> x] :
             x \in ArrayInputs \cup {None}}

CallExtractFrames ==
    /\ call.op = "extract_frames"
    /\ ~call.done
    /\ call' = [op |-> "extract_frames", done |-> TRUE,
                video |-> call.video, seq_length |-> call.seq_length,
                img_size |-> call.img_size,
                out |-> extract_frames(call.video, call.seq_length,
                                       call.img_size)]
    /\ UNCHANGED <<loaderVars, appVars>>

CallPreprocessVideo ==
    /\ call.op = "preprocess_video"
    /\ ~call.done
    /\ call' = [op |-> "preprocess_video", done |-> TRUE,
                frames |-> call.frames, out |-> preprocess_video(call.frames)]
    /\ UNCHANGED <<loaderVars, appVars>>

\* video_utils.py lines 267-273: the frames extract_frames returned are
\* handed on to preprocess_video
CallPreprocessExtracted ==
    /\ call.op = "extract_frames"
    /\ call.done
    /\ call.out.ret # None
    /\ call' = [op |-> "preprocess_video", done |-> TRUE,
                frames |-> call.out.ret,
                out |-> preprocess_video(call.out.ret)]
    /\ UNCHANGED <<loaderVars, appVars>>

(***************************************************************************)
(* model_loader.py                                                         *)
(***************************************************************************)
NUM_CLASSES == 11

List(items) == [none |-> FALSE, items |-> items]

\* the list get_class_labels falls back to when classes.json is absent
DefaultLabels ==
    <<"basketball", "biking", "diving", "golf_swing", "horse_riding",
      "soccer_juggling", "swing", "tennis_swing", "trampoline_jumping",
      "volleyball_spiking", "walking">>

ReversedLabels == [k \in 1..11 |-> DefaultLabels[12 - k]]

\* 'classes' values a classes.json can carry: JSON arrays and JSON null
ClassesValues ==
    {List(DefaultLabels), List(ReversedLabels), List(<<"jump", "run">>),
     List(DefaultLabels \o <<"yoga">>),
     List([DefaultLabels EXCEPT ![2] = "walking"]), List(<<>>), None}

\* The file at CLASSES_PATH.
\*   json  "object": a JSON object; "array": valid JSON that is not an
\*         object; "invalid": not JSON
ClassesFiles ==
    {[exists |-> FALSE, json |-> "object", hasClasses |-> FALSE,
      classes |-> None]}
    \cup {[exists |-> TRUE, json |-> j, hasClasses |-> FALSE,
           classes |-> None] : j \in {"object", "array", "invalid"}}
    \cup {[exists |-> TRUE, json |-> "object", hasClasses |-> TRUE,
           classes |-> c] : c \in ClassesValues}

\* The file at MODEL_PATH; weightsOk: load_weights accepts it.
ModelFiles ==
    {[exists |-> FALSE, weightsOk |-> FALSE],
     [exists |-> TRUE, weightsOk |-> FALSE],
     [exists |-> TRUE, weightsOk |-> TRUE]}

\* data.get('classes', [])
dataGet(file) == IF file.hasClasses THEN file.classes ELSE List(<<>>)

\* get_class_labels(): the value returned (or the exception), the new value
\* of the global, and whether a label source was read
get_class_labels(cached, file) ==
    IF cached # None
    THEN [raised |-> FALSE, ret |-> cached, global |-> cached, read |-> FALSE]
    ELSE IF file.exists
    THEN IF file.json = "object"
         THEN [raised |-> FALSE, ret |-> dataGet(file),
               global |-> dataGet(file), read |-> TRUE]
         ELSE [raised |-> TRUE, ret |-> None, global |-> cached,
               read |-> TRUE]
    ELSE [raised |-> FALSE, ret |-> List(DefaultLabels),
          global |-> List(DefaultLabels), read |-> TRUE]

\* load_model(): buildOk and compileOk say whether build_model() and
\* _model.compile() return or raise
load_model(cached, file, nbuilt, buildOk, compileOk) ==
    IF cached # None
    THEN [raised |-> FALSE, ret |-> cached, global |-> cached,
          built |-> FALSE]
    ELSE IF ~file.exists
    THEN [raised |-> TRUE, ret |-> None, global |-> cached, built |-> FALSE]
    ELSE IF ~buildOk
    THEN [raised |-> TRUE, ret |-> None, global |-> cached, built |-> FALSE]
    ELSE LET m == [none |-> FALSE, id |-> nbuilt + 1,
                   weights |-> file.weightsOk, compiled |-> compileOk]
         IN  IF compileOk
             THEN [raised |-> FALSE, ret |-> m, global |-> m, built |-> TRUE]
             ELSE [raised |-> TRUE, ret |-> None, global |-> m,
                   built |-> TRUE]

NoFirst ==
    [modelDone |-> FALSE, model |-> None, buildsThen |-> 0,
     labelsDone |-> FALSE, labels |-> None, readsThen |-> 0]

LoaderInit ==
    /\ _model = None
    /\ _class_labels = None
    /\ modelFile \in ModelFiles
    /\ classesFile \in ClassesFiles
    /\ builds = 0
    /\ labelReads = 0
    /\ loadCalls = 0
    /\ lastLoad = [op |-> "none", raised |-> FALSE, ret |-> None]
    /\ firstRet = NoFirst

LoadModel ==
    /\ loadCalls < MaxCalls
    /\ \E buildOk \in BOOLEAN, compileOk \in BOOLEAN :
          LET r == load_model(_model, modelFile, builds, buildOk, compileOk)
              b == IF r.built THEN builds + 1 ELSE builds
          IN  /\ _model' = r.global
              /\ builds' = b
              /\ lastLoad' = [op |-> "load_model", raised |-> r.raised,
                              ret |-> r.ret]
              /\ firstRet' =
                    IF ~r.raised /\ ~firstRet.modelDone
                    THEN [firstRet EXCEPT !.modelDone = TRUE,
                                          !.model = r.ret,
                                          !.buildsThen = b]
                    ELSE firstRet
    /\ loadCalls' = loadCalls + 1
    /\ UNCHANGED <<_class_labels, modelFile, classesFile, labelReads,
                   videoVars, appVars>>

GetClassLabels ==
    /\ loadCalls < MaxCalls
    /\ LET r == get_class_labels(_class_labels, classesFile)
           n == IF r.read THEN labelReads + 1 ELSE labelReads
       IN  /\ _class_labels' = r.global
           /\ labelReads' = n
           /\ lastLoad' = [op |-> "get_class_labels", raised |-> r.raised,
                           ret |-> r.ret]
           /\ firstRet' =
                 IF ~r.raised /\ ~firstRet.labelsDone
                 THEN [firstRet EXCEPT !.labelsDone = TRUE,
                                       !.labels = r.ret,
                                       !.readsThen = n]
                 ELSE firstRet
    /\ loadCalls' = loadCalls + 1
    /\ UNCHANGED <<_model, modelFile, classesFile, builds, videoVars,
                   appVars>>

(***************************************************************************)
(* app.py: helpers of the POST /predict handler.                           *)
(***************************************************************************)
UPLOAD_FOLDER == "uploads"

\* File names are sequences of atoms: ".", "/" and runs of other characters.
ALLOWED_EXTENSIONS ==
    {<<"mp4">>, <<"avi">>, <<"mov">>, <<"mpg">>, <<"mpeg">>, <<"mkv">>,
     <<"webm">>}

\* the file names clients send; <<>> is the empty file name
Filenames ==
    {<<>>,
     <<"clip", ".", "mp4">>,
     <<"clip", ".", "MP4">>,
     <<"clip", ".", "txt">>,
     <<"clip", ".", "mp4", ".", "txt">>,
     <<"mp4">>,
     <<"clip", ".">>,
     <<".", ".", "/", "clip", ".", "mp4">>}

\* str.lower() of one atom
lowerAtom(a) == IF a = "MP4" THEN "mp4" ELSE a

lower(f) == [k \in 1..Len(f) |-> lowerAtom(f[k])]

\* filename.rsplit('.', 1)[1], for a name that holds a dot
rsplit1(f) ==
    LET last == CHOOSE i \in 1..Len(f) :
                    /\ f[i] = "."
                    /\ \A j \in (i + 1)..Len(f) : f[j] # "."
    IN  SubSeq(f, last + 1, Len(f))

\* an extension check that accepts every name holding a dot
allowed_file_anydot(filename) ==
    \E i \in 1..Len(filename) : filename[i] = "."

allowed_file(filename) ==
    /\ \E i \in 1..Len(filename) : filename[i] = "."
    /\ lower(rsplit1(filename)) \in ALLOWED_EXTENSIONS

RECURSIVE splitJoin(_, _, _)
\* "_".join(filename.split()) after the path separators became blanks
splitJoin(f, out, gap) ==
    IF f = <<>> THEN out
    ELSE IF Head(f) = "/" THEN splitJoin(Tail(f), out, out # <<>>)
    ELSE splitJoin(Tail(f),
                   IF gap THEN out \o <<"_", Head(f)>>
                   ELSE Append(out, Head(f)),
                   FALSE)

RECURSIVE lstrip(_)
lstrip(f) ==
    IF f # <<>> /\ Head(f) \in {".", "_"} THEN lstrip(Tail(f)) ELSE f

RECURSIVE rstrip(_)
rstrip(f) ==
    IF f # <<>> /\ f[Len(f)] \in {".", "_"}
    THEN rstrip(SubSeq(f, 1, Len(f) - 1))
    ELSE f

\* werkzeug.utils.secure_filename
secure_filename(filename) == rstrip(lstrip(splitJoin(filename, <<>>, FALSE)))

\* os.path.join(app.config['UPLOAD_FOLDER'], filename)
pathJoin(folder, filename) == <<folder, "/">> \o filename

\* Probabilities are held in thousandths.
Distinct == <<10, 20, 30, 40, 50, 60, 70, 80, 90, 100, 450>>

\* the vectors model.predict returns for one video: NUM_CLASSES entries
\* that sum to one, some with equal entries and some with none
ProbVectors ==
    {[k \in 1..NUM_CLASSES |->
        (IF k = i THEN 500 ELSE 0) + (IF k = j THEN 500 ELSE 0)] :
        i \in 1..NUM_CLASSES, j \in 1..NUM_CLASSES}
    \cup {[k \in 1..NUM_CLASSES |->
             Distinct[((k + r) % NUM_CLASSES) + 1]] : r \in 1..NUM_CLASSES}

\* predictions[0].argmax(): the first index of the largest entry, from 0
argmax(p) ==
    (CHOOSE i \in 1..Len(p) :
        /\ \A j \in 1..Len(p) : p[j] <= p[i]
        /\ \A j \in 1..(i - 1) : p[j] < p[i]) - 1

\* An insertion-ordered dict is a sequence of <<key, value>> with distinct
\* keys.
dictSet(d, key, value) ==
    IF \E k \in 1..Len(d) : d[k][1] = key
    THEN [k \in 1..Len(d) |-> IF d[k][1] = key THEN <<key, value>> ELSE d[k]]
    ELSE Append(d, <<key, value>>)

RECURSIVE dictComp(_, _, _, _)
\* {class_labels[i]: float(predictions[0][i]) for i in range(len(labels))}
dictComp(labels, p, i, d) ==
    IF i >= Len(labels) THEN d
    ELSE dictComp(labels, p, i + 1, dictSet(d, labels[i + 1], p[i + 1]))

\* place item behind every entry that does not sort after it
insertDesc(sorted, item) ==
    LET n == Cardinality({k \in 1..Len(sorted) : sorted[k][2] >= item[2]})
    IN  SubSeq(sorted, 1, n) \o <<item>> \o SubSeq(sorted, n + 1, Len(sorted))

RECURSIVE sortedDesc(_, _)
\* dict(sorted(all_predictions.items(), key=lambda x: x[1], reverse=True))
sortedDesc(items, out) ==
    IF items = <<>> THEN out
    ELSE sortedDesc(Tail(items), insertDesc(out, Head(items)))

\* every label of the model in the order Python compares strings
KeyOrder ==
    <<"basketball", "biking", "diving", "golf_swing", "horse_riding", "jump",
      "run", "soccer_juggling", "swing", "tennis_swing",
      "trampoline_jumping", "volleyball_spiking", "walking", "yoga">>

keyRank(key) == CHOOSE k \in 1..Len(KeyOrder) : KeyOrder[k] = key

insertKey(sorted, item) ==
    LET n == Cardinality({k \in 1..Len(sorted) :
                             keyRank(sorted[k][1]) <= keyRank(item[1])})
    IN  SubSeq(sorted, 1, n) \o <<item>> \o SubSeq(sorted, n + 1, Len(sorted))

RECURSIVE sortKeys(_, _)
\* a dict as jsonify writes it: app.json.sort_keys is left at its default,
\* so the members of every object are written in key order
sortKeys(items, out) ==
    IF items = <<>> THEN out
    ELSE sortKeys(Tail(items), insertKey(out, Head(items)))

\* round(confidence * 100, 2), in hundredths of a percent
roundPercent(p) == p * 10

(***************************************************************************)
(* app.py: POST /predict.                                                  *)
(***************************************************************************)
NoPrediction == [action |-> "", confidence |-> 0, class_index |-> -1]

NoResponse ==
    [status |-> 0, success |-> FALSE, error |-> "", message |-> <<>>,
     prediction |-> NoPrediction, all_predictions |-> <<>>]

\* jsonify({'success': False, 'error': ..., 'message': ...}), status
failure(status, error, message) ==
    [status |-> status, success |-> FALSE, error |-> error,
     message |-> message, prediction |-> NoPrediction,
     all_predictions |-> <<>>]

\* the handler's 'except Exception as e' clause
predictionFailed(exc) == failure(500, "Prediction failed", exc)

NoReq ==
    [hasVideo |-> FALSE, filename |-> <<>>, filepath |-> <<>>,
     frames |-> None]

NoTrace ==
    [wrote |-> FALSE, path |-> <<>>, extracted |-> FALSE, decoded |-> 0,
     predictCalls |-> 0, tensorShape |-> <<>>, probs |-> <<>>, exc |-> <<>>,
     sorted |-> <<>>, uploaded |-> None, readOwn |-> TRUE]

\* a file of which only a part was written
PartialFile ==
    [raw |-> <<>>, ioRaise |-> 0, cvOpen |-> FALSE, cvCount |-> 0,
     cvRaise |-> -1]

\* what the decoders find at a path that holds no file
MissingFile ==
    [raw |-> <<>>, ioRaise |-> 0, cvOpen |-> FALSE, cvCount |-> 0,
     cvRaise |-> -1]

\* the file a decoder opens at a path
fileAt(files, path) ==
    IF path \in DOMAIN files THEN files[path] ELSE MissingFile

\* os.remove(filepath) guarded by os.path.exists(filepath)
removeFile(files, path) == [q \in DOMAIN files \ {path} |-> files[q]]

\* video_file.save(filepath) that ran to its end
writeFile(files, path, content) ==
    [q \in DOMAIN files \cup {path} |->
        IF q = path THEN content ELSE files[q]]

\* lines 127-152 of the handler: the response built from the probabilities,
\* or the exception raised on the way
buildResponse(labels, p) ==
    LET idx == argmax(p)
        conf == p[idx + 1]
        items == labels.items
        all == dictComp(items, p, 0, <<>>)
        sorted == sortedDesc(all, <<>>)
    IN  IF labels = None
        THEN [raised |-> TRUE,
              exc |-> <<"'NoneType' object is not subscriptable">>,
              sorted |-> <<>>, body |-> NoResponse]
        ELSE IF idx >= Len(items)
        THEN [raised |-> TRUE, exc |-> <<"list index out of range">>,
              sorted |-> <<>>, body |-> NoResponse]
        ELSE IF Len(items) > Len(p)
        THEN [raised |-> TRUE,
              exc |-> <<"index 11 is out of bounds for axis 0 with size 11">>,
              sorted |-> <<>>, body |-> NoResponse]
        ELSE [raised |-> FALSE, exc |-> <<>>, sorted |-> sorted,
              body |->
                [status |-> 200, success |-> TRUE, error |-> "",
                 message |-> <<"Predicted action: ", items[idx + 1],
                               roundPercent(conf)>>,
                 prediction |->
                    [action |-> items[idx + 1],
                     confidence |-> roundPercent(conf),
                     class_index |-> idx],
                 all_predictions |-> sortKeys(sorted, <<>>)]]

\* the input the network was built for: Input(shape=(SEQ_LENGTH, IMG_SIZE,
\* IMG_SIZE, 3)) behind the batch axis
fitsModel(x) ==
    /\ Len(x.shape) = 5
    /\ SubSeq(x.shape, 2, 5) = <<SEQ_LENGTH, IMG_SIZE, IMG_SIZE, 3>>

\* lines 78-107: the three checks, then the path the upload is saved under
Receive ==
    /\ pc \in {"idle", "responded"}
    /\ \E hasVideo \in BOOLEAN, filename \in Filenames :
          IF ~hasVideo
          THEN /\ response' = failure(400, "No video file provided",
                      <<"Please upload a video file with key video">>)
               /\ pc' = "responded"
               /\ req' = NoReq
          ELSE IF filename = <<>>
          THEN /\ response' = failure(400, "No file selected",
                      <<"Please select a video file to upload">>)
               /\ pc' = "responded"
               /\ req' = [NoReq EXCEPT !.hasVideo = TRUE,
                                       !.filename = filename]
          ELSE IF ~allowed_file(filename)
          THEN /\ response' = failure(400, "Invalid file type",
                      <<"Allowed formats: mp4, avi, mov, mpg, mpeg, mkv, webm">>)
               /\ pc' = "responded"
               /\ req' = [NoReq EXCEPT !.hasVideo = TRUE,
                                       !.filename = filename]
          ELSE /\ response' = NoResponse
               /\ pc' = "saving"
               /\ req' = [NoReq EXCEPT
                            !.hasVideo = TRUE,
                            !.filename = filename,
                            !.filepath = pathJoin(UPLOAD_FOLDER,
                                             secure_filename(filename))]
    /\ trace' = NoTrace
    /\ UNCHANGED <<class_labels, uploads, other, videoVars, loaderVars>>

\* line 108: video_file.save(filepath).  It writes the whole upload, or
\* raises before the file exists, or raises with a part of it written.
Save ==
    /\ pc = "saving"
    /\ \/ \E video \in UploadedVideos :
             /\ uploads' = writeFile(uploads, req.filepath, video)
             /\ trace' = [trace EXCEPT !.wrote = TRUE, !.path = req.filepath,
                                      !.uploaded = video]
             /\ pc' = "saved"
             /\ response' = response
       \/ /\ uploads' = uploads
          /\ trace' = [trace EXCEPT
                         !.exc = <<"[Errno 13] Permission denied">>]
          /\ pc' = "responded"
          /\ response' = predictionFailed(trace'.exc)
       \/ /\ uploads' = writeFile(uploads, req.filepath, PartialFile)
          /\ trace' = [trace EXCEPT
                         !.wrote = TRUE, !.path = req.filepath,
                         !.exc = <<"[Errno 28] No space left on device">>]
          /\ pc' = "responded"
          /\ response' = predictionFailed(trace'.exc)
    /\ UNCHANGED <<class_labels, req, other, videoVars, loaderVars>>

\* lines 110-119 and the finally clause: extract_frames(filepath)
Extract ==
    /\ pc = "saved"
    /\ LET content == fileAt(uploads, req.filepath)
           ex == extract_frames(content, SEQ_LENGTH, IMG_SIZE)
       IN  /\ trace' = [trace EXCEPT !.extracted = TRUE,
                                    !.decoded = ex.kept,
                                    !.uploaded = None,
                                    !.readOwn = (content = trace.uploaded)]
           /\ IF ex.ret = None
              THEN /\ response' = failure(400, "Failed to process video",
                          <<"Could not extract frames from video.">>)
                   /\ uploads' = removeFile(uploads, req.filepath)
                   /\ pc' = "responded"
                   /\ req' = req
              ELSE /\ response' = response
                   /\ uploads' = uploads
                   /\ pc' = "decoded"
                   /\ req' = [req EXCEPT !.frames = ex.ret]
    /\ UNCHANGED <<class_labels, other, videoVars, loaderVars>>

\* lines 121-164: preprocess_video, model.predict (which raises, or returns
\* the probabilities of an input it was built for), the response, and the
\* finally clause
Infer ==
    /\ pc = "decoded"
    /\ LET processed == preprocess_video(req.frames)
           called == [trace EXCEPT !.predictCalls = @ + 1,
                                   !.tensorShape = processed.value.shape]
       IN  IF processed.raised
           THEN /\ trace' = [trace EXCEPT !.exc = processed.message]
                /\ response' = predictionFailed(processed.message)
           ELSE \/ /\ trace' = [called EXCEPT !.exc =
                                   <<"Graph execution error: OOM">>]
                   /\ response' = predictionFailed(trace'.exc)
                \/ /\ fitsModel(processed.value)
                   /\ \E p \in ProbVectors :
                        LET out == buildResponse(class_labels, p)
                        IN  IF out.raised
                            THEN /\ trace' = [called EXCEPT !.probs = p,
                                                            !.exc = out.exc]
                                 /\ response' = predictionFailed(out.exc)
                            ELSE /\ trace' = [called EXCEPT
                                                !.probs = p,
                                                !.sorted = out.sorted]
                                 /\ response' = out.body
    /\ uploads' = removeFile(uploads, req.filepath)
    /\ pc' = "responded"
    /\ UNCHANGED <<class_labels, req, other, videoVars, loaderVars>>

(***************************************************************************)
(* The specifications.                                                     *)
(***************************************************************************)
NoFiles == [q \in {} |-> PartialFile]

\* a thread that has not received a request
IdleThread ==
    [pc |-> "idle", req |-> NoReq, response |-> NoResponse, trace |-> NoTrace]

VideoIdle == call = NoCall

LoaderIdle ==
    /\ _model = None
    /\ _class_labels = None
    /\ modelFile = [exists |-> FALSE, weightsOk |-> FALSE]
    /\ classesFile = [exists |-> FALSE, json |-> "object",
                      hasClasses |-> FALSE, classes |-> None]
    /\ builds = 0
    /\ labelReads = 0
    /\ loadCalls = 0
    /\ lastLoad = [op |-> "none", raised |-> FALSE, ret |-> None]
    /\ firstRet = NoFirst

AppIdle ==
    /\ class_labels = None
    /\ uploads = NoFiles
    /\ pc = "idle"
    /\ req = NoReq
    /\ response = NoResponse
    /\ trace = NoTrace
    /\ other = IdleThread

\* direct calls of extract_frames and preprocess_video
VideoInit == call \in PendingCalls /\ LoaderIdle /\ AppIdle

VideoNext ==
    CallExtractFrames \/ CallPreprocessVideo \/ CallPreprocessExtracted

SpecVideo == VideoInit /\ [][VideoNext]_vars

\* any sequence of load_model() and get_class_labels() calls in a process
LoaderOnlyInit == VideoIdle /\ LoaderInit /\ AppIdle

LoaderNext == LoadModel \/ GetClassLabels

SpecLoader == LoaderOnlyInit /\ [][LoaderNext]_vars

\* The server: app.py lines 30-34 have run (model = load_model();
\* class_labels = get_class_labels()) without raising, then requests are
\* served one after the other.
Init ==
    /\ VideoIdle
    /\ modelFile = [exists |-> TRUE, weightsOk |-> TRUE]
    /\ classesFile \in ClassesFiles
    /\ LET m == load_model(None, modelFile, 0, TRUE, TRUE)
           l == get_class_labels(None, classesFile)
       IN  /\ ~l.raised
           /\ _model = m.global
           /\ _class_labels = l.global
           /\ class_labels = l.ret
           /\ lastLoad = [op |-> "get_class_labels", raised |-> FALSE,
                          ret |-> l.ret]
           /\ firstRet = [modelDone |-> TRUE, model |-> m.ret,
                          buildsThen |-> 1, labelsDone |-> TRUE,
                          labels |-> l.ret, readsThen |-> 1]
    /\ builds = 1
    /\ labelReads = 1
    /\ loadCalls = 2
    /\ uploads = NoFiles
    /\ pc = "idle"
    /\ req = NoReq
    /\ response = NoResponse
    /\ trace = NoTrace
    /\ other = IdleThread

Next == Receive \/ Save \/ Extract \/ Infer

Spec == Init /\ [][Next]_vars

(***************************************************************************)
(* Properties of video_utils.py, checked under SpecVideo.                  *)
(***************************************************************************)
Extracted == call.op = "extract_frames" /\ call.done

\* a raw colour divided by 255.0, in thousandths
Unit(px) == [k \in 1..3 |-> (px[k] * 1000) \div 255]

\* the number of frames the decoder that supplied the result yields
Yielded ==
    IF call.out.decoder = "imageio" THEN Len(call.video.raw)
    ELSE call.video.cvCount

\* C1: a result of extract_frames(path, N, S) holds exactly N frames of
\* S x S x 3: the first min(K, N) frames of the decoder that was used, in
\* decode order, then all-zero frames up to N.
C1_ExactlyNFrames ==
    (Extracted /\ call.out.ret # None) =>
        LET a == call.out.ret
            N == call.seq_length
            S == call.img_size
            m == Min(Yielded, N)
        IN  /\ Yielded >= 1
            /\ a.shape = <<N, S, S, 3>>
            /\ Len(a.data) = N
            /\ \A i \in 1..N :
                  a.data[i] = IF i <= m THEN Unit(call.video.raw[i])
                              ELSE <<0, 0, 0>>

\* a video shorter than N was decoded by the fallback and padded
C1_Witness ==
    /\ Extracted
    /\ call.out.ret # None
    /\ call.out.decoder = "opencv"
    /\ call.out.kept >= 1
    /\ call.out.kept < call.seq_length

\* a video longer than N was decoded by the primary decoder and trimmed
C1_TrimmedReached ==
    /\ Extracted
    /\ call.out.decoder = "imageio"
    /\ Len(call.video.raw) > call.seq_length

\* C6 as claimed: the fallback decoder is tried whenever the primary one
\* delivers no usable frame, with or without raising, and None is returned
\* only after both decoders were tried; the result comes from one decoder.
C6_FallbackWheneverPrimaryFails ==
    Extracted =>
        /\ ((call.out.io.raised \/ call.out.io.kept = 0)
               => call.out.cv.tried)
        /\ (call.out.ret = None => call.out.cv.tried)
        /\ (call.out.ret # None /\ call.out.cv.tried
               => call.out.decoder = "opencv")

\* C10 as claimed: for a video of more than N frames neither decoder is
\* asked for more than N frames and no frame past the first N is pulled.
C10_AtMostNFramesPulled ==
    (Extracted /\ Len(call.video.raw) > call.seq_length) =>
        /\ call.out.io.asked <= call.seq_length
        /\ call.out.io.pulled <= call.seq_length
        /\ call.out.cv.reads <= call.seq_length

\* C10 as amended: the imageio loop pulls the frame at index N before it
\* breaks, so it pulls at most N + 1 frames (exactly N + 1 of a longer video
\* that does not raise) and keeps the first N; the OpenCV loop calls
\* cap.read() at most N times.
C10_AtMostOneFramePastN ==
    Extracted =>
        /\ call.out.io.asked <= call.seq_length + 1
        /\ call.out.io.pulled <= call.seq_length + 1
        /\ call.out.io.kept <= call.seq_length
        /\ call.out.cv.reads <= call.seq_length
        /\ (Len(call.video.raw) > call.seq_length
              /\ call.out.decoder = "imageio"
              => /\ call.out.io.pulled = call.seq_length + 1
                 /\ call.out.kept = call.seq_length)

\* a video of at least N + 2 frames was read by the primary decoder
C10_Witness ==
    /\ Extracted
    /\ call.out.decoder = "imageio"
    /\ Len(call.video.raw) >= call.seq_length + 2
    /\ call.out.io.pulled = call.seq_length + 1

Preprocessed == call.op = "preprocess_video" /\ call.done

\* C9: preprocess_video turns rank 4 into rank 5 with a leading axis of 1,
\* leaves the shape of a rank-5 input as it is, raises for None and raises
\* for every other rank with a message that carries the shape; so what
\* extract_frames returns always becomes a rank-5 tensor, and the handler
\* of POST /predict hands only rank-5 tensors to model.predict.
C9_BatchTensorRank5 ==
    /\ Preprocessed =>
          IF call.frames = None THEN call.out.raised
          ELSE IF Len(call.frames.shape) = 4
          THEN /\ ~call.out.raised
               /\ call.out.value.shape = <<1>> \o call.frames.shape
               /\ call.out.value.data = call.frames.data
          ELSE IF Len(call.frames.shape) = 5
          THEN /\ ~call.out.raised
               /\ call.out.value.shape = call.frames.shape
               /\ call.out.value.data = call.frames.data
          ELSE /\ call.out.raised
               /\ call.out.error = "ValueError"
               /\ call.out.message[Len(call.out.message)] = call.frames.shape
    /\ (Preprocessed /\ ~call.out.raised) => Len(call.out.value.shape) = 5
    /\ trace.predictCalls > 0 => Len(trace.tensorShape) = 5

\* a rank-5 array went through preprocess_video
C9_Witness ==
    /\ Preprocessed
    /\ call.frames # None
    /\ Len(call.frames.shape) = 5
    /\ ~call.out.raised

\* the frames extract_frames returned went through preprocess_video
C9_ExtractedReached ==
    /\ Preprocessed
    /\ call.frames # None
    /\ call.frames.data # <<>>
    /\ ~call.out.raised

\* an array of a rank other than 4 and 5 was rejected
C9_RejectedReached ==
    /\ Preprocessed
    /\ call.frames # None
    /\ Len(call.frames.shape) = 3
    /\ call.out.raised

(***************************************************************************)
(* Properties of POST /predict, checked under Spec.                        *)
(***************************************************************************)
Responded == pc = "responded"

\* the name ends in a dot followed by a whitelisted extension, in any case
HasAllowedExtension(f) ==
    /\ Len(f) >= 2
    /\ f[Len(f) - 1] = "."
    /\ f[Len(f)] \in {"mp4", "MP4", "avi", "mov", "mpg", "mpeg", "mkv",
                       "webm"}

Rejected400 ==
    /\ response.status = 400
    /\ ~response.success
    /\ trace.predictCalls = 0

\* C2 as claimed: once the response is returned, no file written for the
\* request remains in the upload folder, whatever the exit path; for a
\* disallowed extension no file is written at all.
C2_NoUploadRemains ==
    Responded =>
        /\ (trace.wrote => trace.path \notin DOMAIN uploads)
        /\ (~HasAllowedExtension(req.filename) => ~trace.wrote)

\* C3: a request without a 'video' field, with an empty file name, with an
\* extension outside the whitelist ('Invalid file type') or with a video of
\* which no frame was decoded ('Failed to process video') is answered 400
\* with success false and without a call of model.predict; a 200 answer
\* is given only after at least one frame was decoded.
C3_ClientErrorsAre400 ==
    Responded =>
        /\ (~req.hasVideo => Rejected400)
        /\ (req.hasVideo /\ req.filename = <<>> => Rejected400)
        /\ (req.hasVideo /\ req.filename # <<>>
               /\ ~HasAllowedExtension(req.filename)
               => Rejected400 /\ response.error = "Invalid file type")
        /\ (trace.extracted /\ trace.decoded = 0
               => Rejected400 /\ response.error = "Failed to process video")
        /\ (response.status = 200 \/ response.success
               => /\ response.status = 200
                  /\ response.success
                  /\ trace.extracted
                  /\ trace.decoded >= 1)

\* an upload with an allowed extension of which no frame could be decoded
C3_Witness ==
    /\ Responded
    /\ HasAllowedExtension(req.filename)
    /\ trace.extracted
    /\ trace.decoded = 0
    /\ response.status = 400

\* an upload whose extension is outside the whitelist was rejected
C3_InvalidTypeReached ==
    /\ Responded
    /\ req.hasVideo
    /\ req.filename # <<>>
    /\ ~HasAllowedExtension(req.filename)
    /\ response.error = "Invalid file type"

\* a video with decoded frames was answered 200
C3_SuccessReached == Responded /\ response.status = 200

\* C4 as claimed: a 500 answer of the handler carries a generic message,
\* never the text of the exception that was raised.
C4_GenericMessageOn500 ==
    (Responded /\ response.status = 500) =>
        /\ ~response.success
        /\ response.message # trace.exc

\* C5 as claimed: in a success response, as it is serialized, every entry
\* of all_predictions has a strictly greater probability than the next.
C5_StrictlyDescending ==
    (Responded /\ response.status = 200) =>
        \A k \in 1..(Len(response.all_predictions) - 1) :
            response.all_predictions[k][2] > response.all_predictions[k + 1][2]

\* the largest entry of a vector, by the lowest index that holds it
Peak(p) ==
    CHOOSE i \in 1..Len(p) :
        /\ \A j \in 1..Len(p) : p[j] <= p[i]
        /\ \A j \in 1..Len(p) : p[j] = p[i] => i <= j

\* C7 as claimed: whatever label list was loaded, a request whose inference
\* returned a probability vector is answered 200 with the label at the
\* argmax index, and all_predictions holds one entry per index i, label i
\* with probability i; the vector is as long as the label list.
C7_LabelsMatchProbabilities ==
    (Responded /\ trace.probs # <<>>) =>
        /\ response.status = 200
        /\ class_labels # None
        /\ Len(class_labels.items) = Len(trace.probs)
        /\ response.prediction.class_index = Peak(trace.probs) - 1
        /\ response.prediction.action = class_labels.items[Peak(trace.probs)]
        /\ Len(response.all_predictions) = Len(class_labels.items)
        /\ \A i \in 1..Len(class_labels.items) :
              \E k \in 1..Len(response.all_predictions) :
                  response.all_predictions[k]
                      = <<class_labels.items[i], trace.probs[i]>>

(***************************************************************************)
(* Properties of model_loader.py, checked under SpecLoader.                *)
(***************************************************************************)
\* C8 as claimed: after the first successful load_model() the model is never
\* built again and every call returns that same object; after the first
\* successful get_class_labels() no label source is read again and every
\* call returns that same list; a cached model has been compiled.
C8_LoadedOnceAndCached ==
    /\ builds <= 1
    /\ firstRet.modelDone =>
          /\ builds = firstRet.buildsThen
          /\ (lastLoad.op = "load_model"
                => ~lastLoad.raised /\ lastLoad.ret = firstRet.model)
    /\ firstRet.labelsDone =>
          /\ labelReads = firstRet.readsThen
          /\ labelReads <= 1
          /\ (lastLoad.op = "get_class_labels"
                => ~lastLoad.raised /\ lastLoad.ret = firstRet.labels)
    /\ _model # None => _model.compiled

(***************************************************************************)
(* Two requests in flight: app.run (app.py line 196) serves every request  *)
(* on a thread of its own, and the threads share UPLOAD_FOLDER.  The       *)
(* handler actions run the current thread; Switch hands the processor to   *)
(* the other one.                                                          *)
(***************************************************************************)
Switch ==
    /\ other' = [pc |-> pc, req |-> req, response |-> response,
                 trace |-> trace]
    /\ pc' = other.pc
    /\ req' = other.req
    /\ response' = other.response
    /\ trace' = other.trace
    /\ UNCHANGED <<class_labels, uploads, videoVars, loaderVars>>

\* uploads that both decoders read to the end without an error
CleanVideos ==
    {v \in UploadedVideos :
        /\ v.ioRaise = -1
        /\ v.cvOpen
        /\ v.cvCount = Len(v.raw)
        /\ v.cvRaise = -1}

\* the path both requests are saved under
SharedPath == pathJoin(UPLOAD_FOLDER, <<"clip", ".", "mp4">>)

\* each thread serves one request, whose file name is sanitized to SharedPath
ThreadReceive == pc = "idle" /\ Receive /\ req'.filepath = SharedPath

ThreadSave == Save /\ (pc' = "saved" => trace'.uploaded \in CleanVideos)

ThreadExtract == Extract

\* the network is sure of the first class
ThreadInfer == Infer /\ (trace'.probs # <<>> => trace'.probs[1] = 1000)

ThreadsInit == Init /\ ~classesFile.exists

ThreadsNext ==
    ThreadReceive \/ ThreadSave \/ ThreadExtract \/ ThreadInfer \/ Switch

SpecThreads == ThreadsInit /\ [][ThreadsNext]_vars

\* the request has saved its upload and has not decoded it yet
AwaitsDecode(t) == t.pc = "saved"

\* C11 as claimed: with two requests in flight under one sanitized file
\* name, the file of a request that has saved its upload and not yet
\* decoded it is still in place with the bytes that request uploaded
\* (neither overwritten nor removed by the other request), and every
\* request decodes the bytes it uploaded itself.
C11_RequestsIsolated ==
    LET mine == [pc |-> pc, req |-> req, response |-> response,
                 trace |-> trace]
    IN  \A t \in {mine, other} :
          /\ AwaitsDecode(t) =>
                /\ t.req.filepath \in DOMAIN uploads
                /\ uploads[t.req.filepath] = t.trace.uploaded
          /\ t.trace.extracted => t.trace.readOwn
====
